---- MODULE Spec2Model ----
(***************************************************************************)
(* State-machine model of the SERN emergency-request core:                 *)
(* src/app.py (route handlers, matcher, credit calculation) and            *)
(* src/models.py (User.update_iri, User.can_donate_blood, the tables).     *)
(*                                                                         *)
(* Spec     : every handler runs to completion on its own (serial).        *)
(* SpecConc : two request threads, each with its own ORM session; a        *)
(*            handler reads its rows, then commits what it changed.        *)
(***************************************************************************)
EXTENDS Integers, Sequences, FiniteSets, TLC

(* ------------------------------ bounds -------------------------------- *)
MaxRequests == 2
MaxCalls == 3
MaxTicks == 1

(* ------------------------- nullable columns --------------------------- *)
None == "None"
NoTime == -1
NoId == 0
NoRating == -100

(* ------------------------ units of measurement ------------------------ *)
IriScale == 30
MinutesPerDay == 24 * 60
CooldownDays == 56

(* --------------------------- static tables ---------------------------- *)
BloodGroups == {"O-", "O+", "A-", "A+", "B-", "B+", "AB-", "AB+"}

\* the table read in the other direction: the groups a group receives from
BLOOD_COMPATIBILITY_received ==
    [g \in BloodGroups |->
        CASE g = "O-"  -> {"O-"}
          [] g = "O+"  -> {"O-", "O+"}
          [] g = "A-"  -> {"O-", "A-"}
          [] g = "A+"  -> {"O-", "O+", "A-", "A+"}
          [] g = "B-"  -> {"O-", "B-"}
          [] g = "B+"  -> {"O-", "O+", "B-", "B+"}
          [] g = "AB-" -> {"O-", "A-", "B-", "AB-"}
          [] g = "AB+" -> BloodGroups]

BLOOD_COMPATIBILITY ==
    [g \in BloodGroups |->
        CASE g = "O-"  -> {"O-", "O+", "A-", "A+", "B-", "B+", "AB-", "AB+"}
          [] g = "O+"  -> {"O+", "A+", "B+", "AB+"}
          [] g = "A-"  -> {"A-", "A+", "AB-", "AB+"}
          [] g = "A+"  -> {"A+", "AB+"}
          [] g = "B-"  -> {"B-", "B+", "AB-", "AB+"}
          [] g = "B+"  -> {"B+", "AB+"}
          [] g = "AB-" -> {"AB-", "AB+"}
          [] g = "AB+" -> {"AB+"}]

RARE_BLOOD_GROUPS == {"AB-", "B-", "A-", "O-"}

OrgRoles == {"hospital", "blood_bank", "ngo", "ambulance"}

(* ------------------------------- state -------------------------------- *)
VARIABLES
    users,      \* user id -> row of table user
    requests,   \* sequence of emergency_request rows, index = id
    responses,  \* sequence of request_response rows, index = id
    logs,       \* sequence of contribution_log rows, index = id
    now,        \* the clock, in minutes
    ticks,      \* how often the clock has advanced
    calls,      \* how many handler calls have been made
    sess,       \* thread -> what its handler has read and not yet committed
    ev          \* the last handler call and its outcome

vars == <<users, requests, responses, logs, now, ticks, calls, sess, ev>>
data == <<users, requests, responses, logs>>

Threads == {1, 2}

(* ------------------------------ seed data ----------------------------- *)
NewUser(role, city, district, bg, verified, iri, ecc) ==
    [role |-> role, city |-> city, district |-> district, blood_group |-> bg,
     last_donation_date |-> NoTime, is_available |-> TRUE,
     iri_score |-> iri * IriScale, ecc_credits |-> ecc,
     total_requests_received |-> 0, total_requests_fulfilled |-> 0,
     total_requests_declined |-> 0, response_time_avg |-> <<0, 1>>,
     is_verified |-> verified]

SeedUsers ==
    <<NewUser("hospital", "Mumbai", "Mumbai Suburban", None, TRUE, 50, 50),
      NewUser("donor", "Mumbai", "Mumbai Suburban", "O-", TRUE, 85, 0),
      NewUser("donor", "Mumbai", "Mumbai Suburban", "A-", TRUE, 55, 0)>>

UserIds == DOMAIN SeedUsers

(* --------------------------- handler inputs --------------------------- *)
\* the forms posted to /request/new:
\* <<resource_type, blood_group, units_needed, urgency>>
RequestForms ==
    {<<"blood", "A-", 2, "critical">>,
     <<"blood", None, 0, "normal">>,
     <<"oxygen", "A-", 2, "normal">>,
     <<"oxygen", None, 2, "urgent">>}
UnitsProvidedInputs == {-1, 1, 2}
RatingInputs == {-20, 5}
TickDeltas == {45, CooldownDays * MinutesPerDay}

UnitsOfferedInputs == {2}
Actions == {"accept", "decline"}

Idle == [op |-> "idle"]

Event(op, who, req, arg, bg, units, rating, res) ==
    [op |-> op, who |-> who, req |-> req, arg |-> arg, bg |-> bg,
     units |-> units, rating |-> rating, res |-> res]

NoEvent == Event("none", NoId, NoId, None, None, 0, NoRating, None)

\* a call that ended at one of the handler's early returns
Rejected(op, who, req, res) == Event(op, who, req, None, None, 0, NoRating, res)

(* ------------------------------ helpers ------------------------------- *)
Min(a, b) == IF a <= b THEN a ELSE b
Max(a, b) == IF a >= b THEN a ELSE b

RECURSIVE Gcd(_, _)
Gcd(a, b) == IF b = 0 THEN a ELSE Gcd(b, a % b)

\* a fraction <<numerator, denominator>> in lowest terms
Frac(n, d) == LET g == Gcd(n, d) IN <<n \div g, d \div g>>

\* the fields of new that differ from what the session loaded overwrite the
\* stored row; the other columns of the stored row are left as they are
Flush(cur, snap, new) ==
    [f \in DOMAIN cur |-> IF new[f] # snap[f] THEN new[f] ELSE cur[f]]

DateOf(t) == t \div MinutesPerDay

\* Query.all() without ORDER BY: the rows that satisfy the filter, in id order
RECURSIVE InIdOrder(_)
InIdOrder(S) ==
    IF S = {} THEN <<>>
    ELSE LET m == CHOOSE x \in S : \A y \in S : x <= y
         IN <<m>> \o InIdOrder(S \ {m})

\* Query.first(): the lowest-id row that satisfies the filter, or NoId
First(ids) == IF ids = <<>> THEN NoId ELSE ids[1]

(* ------------------------- models.py: User ---------------------------- *)
can_donate_blood(u, t) ==
    IF u.last_donation_date = NoTime THEN TRUE
    ELSE DateOf(t) - u.last_donation_date >= CooldownDays

is_organization(u) == u.role \in OrgRoles

\* update_iri without the clamps of lines 89 and 93
update_iri_unclamped(u, fulfilled, rt) ==
    LET nful == u.total_requests_fulfilled + (IF fulfilled THEN 1 ELSE 0)
        ndec == u.total_requests_declined + (IF fulfilled THEN 0 ELSE 1)
        fulfillment_bonus == Min(5 * IriScale, 100 * IriScale - u.iri_score)
        time_bonus == Max(0, 2 * IriScale - rt)
    IN [u EXCEPT !.total_requests_received = @ + 1,
                 !.total_requests_fulfilled = nful,
                 !.total_requests_declined = ndec,
                 !.iri_score = IF fulfilled THEN @ + fulfillment_bonus + time_bonus
                               ELSE @ - 3 * IriScale]

\* response_time_minutes is rt; iri_score is kept in units of 1/IriScale
update_iri(u, fulfilled, rt) ==
    LET received == u.total_requests_received + 1
        nful == u.total_requests_fulfilled + (IF fulfilled THEN 1 ELSE 0)
        ndec == u.total_requests_declined + (IF fulfilled THEN 0 ELSE 1)
        fulfillment_bonus == Min(5 * IriScale, 100 * IriScale - u.iri_score)
        time_bonus == Max(0, 2 * IriScale - rt)
        iri == IF fulfilled
               THEN Min(100 * IriScale, u.iri_score + fulfillment_bonus + time_bonus)
               ELSE Max(0, u.iri_score - 3 * IriScale)
        total_responses == nful + ndec
        avg == IF rt > 0
               THEN Frac(u.response_time_avg[1] * (total_responses - 1)
                           + rt * u.response_time_avg[2],
                         u.response_time_avg[2] * total_responses)
               ELSE u.response_time_avg
    IN [u EXCEPT !.total_requests_received = received,
                 !.total_requests_fulfilled = nful,
                 !.total_requests_declined = ndec,
                 !.iri_score = iri,
                 !.response_time_avg = avg]

(* ----------------------- app.py: the matcher -------------------------- *)
\* the donor groups whose compatibility list holds the requested group
compatible_donors(bg) == {g \in BloodGroups : bg \in BLOOD_COMPATIBILITY[g]}

\* the filters find_matching_contributors puts on the query before the
\* location filter
BaseQuery(us, req) ==
    {i \in DOMAIN us :
        /\ us[i].is_available
        /\ i # req.requester_id
        /\ CASE req.resource_type = "blood" ->
                    /\ us[i].role = "donor"
                    /\ (req.blood_group # None =>
                            us[i].blood_group \in compatible_donors(req.blood_group))
             [] req.resource_type = "ambulance" -> us[i].role = "ambulance"
             [] req.resource_type = "volunteer" -> us[i].role = "volunteer"
             [] req.resource_type \in {"plasma", "oxygen"} ->
                    us[i].role \in {"blood_bank", "hospital", "ngo"}
             [] OTHER -> TRUE}

CityContributors(us, req) ==
    InIdOrder({i \in BaseQuery(us, req) : us[i].city = req.city})

DistrictContributors(us, req) ==
    InIdOrder({i \in BaseQuery(us, req) :
                  us[i].district = req.district /\ us[i].city # req.city})

\* lines 380-381 skipped for a request that is already marked auto_expanded
ExpandsOnce(us, req) ==
    /\ ~req.auto_expanded
    /\ Len(CityContributors(us, req)) < 3 \/ req.urgency = "critical"
    /\ req.blood_group \in RARE_BLOOD_GROUPS \/ req.urgency = "critical"

\* line 380 without the condition of line 381
ExpandsWhenFew(us, req) ==
    Len(CityContributors(us, req)) < 3 \/ req.urgency = "critical"

Expands(us, req) ==
    /\ Len(CityContributors(us, req)) < 3 \/ req.urgency = "critical"
    /\ req.blood_group \in RARE_BLOOD_GROUPS \/ req.urgency = "critical"

\* sort_key without the eligibility field of line 393
sort_key_no_cooldown(u, t) ==
    <<1,
      IF u.is_verified THEN 1 ELSE 0,
      IF ~is_organization(u) THEN u.iri_score
      ELSE IriScale * Min(100, u.ecc_credits)>>

sort_key(u, t) ==
    <<IF u.role # "donor" \/ can_donate_blood(u, t) THEN 1 ELSE 0,
      IF u.is_verified THEN 1 ELSE 0,
      IF ~is_organization(u) THEN u.iri_score
      ELSE IriScale * Min(100, u.ecc_credits)>>

\* tuple comparison, first field first
KeyLess(a, b) ==
    \/ a[1] < b[1]
    \/ a[1] = b[1] /\ a[2] < b[2]
    \/ a[1] = b[1] /\ a[2] = b[2] /\ a[3] < b[3]

\* list.sort(key=sort_key, reverse=True): descending, equal keys keep their order
RECURSIVE SortDesc(_, _, _)
SortDesc(ids, us, t) ==
    IF ids = <<>> THEN <<>>
    ELSE LET best == CHOOSE i \in 1..Len(ids) :
                        /\ \A j \in 1..Len(ids) :
                              ~KeyLess(sort_key(us[ids[i]], t), sort_key(us[ids[j]], t))
                        /\ \A j \in 1..(i - 1) :
                              KeyLess(sort_key(us[ids[j]], t), sort_key(us[ids[i]], t))
             rest == [k \in 1..(Len(ids) - 1) |->
                         IF k < best THEN ids[k] ELSE ids[k + 1]]
         IN <<ids[best]>> \o SortDesc(rest, us, t)

\* line 406 with the two limits exchanged
max_notifications_swapped(req) == IF req.urgency = "critical" THEN 5 ELSE 10

max_notifications(req) == IF req.urgency = "critical" THEN 10 ELSE 5

\* line 387 with the district's rows taking the place of the city's
CandidatesReplaced(us, req) ==
    IF Expands(us, req) /\ DistrictContributors(us, req) # <<>>
    THEN DistrictContributors(us, req)
    ELSE CityContributors(us, req)

\* lines 377-387: the city's rows, extended by the district's on expansion
Candidates(us, req) ==
    CityContributors(us, req)
      \o (IF Expands(us, req) THEN DistrictContributors(us, req) ELSE <<>>)

find_matching_contributors(us, req, t) ==
    LET contributors == Candidates(us, req)
        sorted == SortDesc(contributors, us, t)
    IN SubSeq(sorted, 1, Min(Len(sorted), max_notifications(req)))

(* ------------------ app.py: is_user_eligible_for_request -------------- *)
\* BLOOD_COMPATIBILITY.get(user.blood_group, [])
can_donate_to(u) ==
    IF u.blood_group \in BloodGroups THEN BLOOD_COMPATIBILITY[u.blood_group]
    ELSE {}

is_user_eligible_for_request(u, req, t) ==
    IF ~u.is_available THEN FALSE
    ELSE IF req.resource_type = "blood"
    THEN IF u.role # "donor" THEN FALSE
         ELSE IF ~can_donate_blood(u, t) THEN FALSE
         ELSE IF req.blood_group # None /\ req.blood_group \notin can_donate_to(u)
         THEN FALSE
         ELSE TRUE
    ELSE TRUE

(* --------------------- app.py: calculate_ecc -------------------------- *)
urgency_multiplier(urgency) ==
    CASE urgency = "critical" -> 3
      [] urgency = "urgent" -> 2
      [] urgency = "normal" -> 1
      [] OTHER -> 1

calculate_ecc(req, resp) ==
    LET base_ecc == 10
        rare_bonus == IF req.blood_group \in RARE_BLOOD_GROUPS THEN 5 ELSE 0
        rating_bonus ==
            (IF resp.requester_rating \in {NoRating, 0} THEN 3
             ELSE resp.requester_rating) - 3
    IN base_ecc * urgency_multiplier(req.urgency) + rare_bonus + rating_bonus

(* ------------------------ app.py: new_request ------------------------- *)
\* filter_by(requester_id, resource_type, blood_group, status='open').first();
\* blood_group is the form's value, None standing for a missing field
ExistingOpen(reqs, u, rtype, bg) ==
    First(InIdOrder({i \in DOMAIN reqs :
        /\ reqs[i].requester_id = u
        /\ reqs[i].resource_type = rtype
        /\ reqs[i].blood_group = bg
        /\ reqs[i].status = "open"}))

RequestRow(us, u, rtype, bg, n, urgency, t) ==
    [requester_id |-> u, resource_type |-> rtype,
     blood_group |-> IF rtype \in {"blood", "plasma"} THEN bg ELSE None,
     units_needed |-> n, urgency |-> urgency,
     city |-> us[u].city, district |-> us[u].district,
     status |-> "open", auto_expanded |-> FALSE,
     units_fulfilled |-> 0, fulfilled_by_id |-> NoId, fulfilled_at |-> NoTime,
     expires_at |-> t + (IF urgency = "normal" THEN 24 ELSE 12) * 60]

\* a request_response row with the column defaults
ResponseRow(r, u, status, notified_at) ==
    [request_id |-> r, responder_id |-> u, status |-> status,
     units_offered |-> 1, units_provided |-> 0,
     notified_at |-> notified_at, responded_at |-> NoTime,
     completed_at |-> NoTime, requester_rating |-> NoRating]

notify_contributors(r, contributors, t) ==
    [k \in 1..Len(contributors) |-> ResponseRow(r, contributors[k], "notified", t)]

\* the whole handler: duplicate check, insert, match, notify
new_request(u, rtype, bg, n, urgency) ==
    LET existing == ExistingOpen(requests, u, rtype, bg)
        row == RequestRow(users, u, rtype, bg, n, urgency, now)
        rid == Len(requests) + 1
        matches == find_matching_contributors(users, row, now)
    IN /\ Len(requests) < MaxRequests
       /\ IF ~is_organization(users[u])
          THEN /\ ev' = Rejected("create", u, NoId, "forbidden")
               /\ UNCHANGED <<requests, responses>>
          ELSE IF existing # NoId
          THEN /\ ev' = Rejected("create", u, existing, "conflict")
               /\ UNCHANGED <<requests, responses>>
          ELSE /\ requests' = Append(requests,
                                [row EXCEPT !.auto_expanded = Expands(users, row)])
               /\ responses' = responses \o notify_contributors(rid, matches, now)
               /\ ev' = Event("create", u, rid, rtype, bg, n, NoRating, "ok")
       /\ UNCHANGED <<users, logs, now, ticks, sess>>

(* --------------------- app.py: respond_to_request --------------------- *)
ResponseIds(resps, r, u) ==
    InIdOrder({i \in DOMAIN resps :
                  resps[i].request_id = r /\ resps[i].responder_id = u})

\* what the handler's session loads: the request, the caller's Response row
\* (if any), the caller, and the time of the call
RespondRead(u, r) ==
    LET idx == First(ResponseIds(responses, r, u))
    IN [req |-> requests[r], idx |-> idx,
        resp |-> IF idx = NoId THEN ResponseRow(r, u, "notified", NoTime)
                 ELSE responses[idx],
        user |-> users[u], t |-> now]

\* the Response row after lines 264-276
RespondResponse(snap, action, k) ==
    [snap.resp EXCEPT !.responded_at = snap.t,
                      !.status = IF action = "accept" THEN "accepted"
                                 ELSE IF action = "decline" THEN "declined" ELSE @,
                      !.units_offered = IF action = "accept" THEN k ELSE @]

\* an accept that leaves the request's status alone (no line 273)
RespondRequestUnmoved(snap, action) == snap.req

\* the request after line 273
RespondRequest(snap, action) ==
    IF action = "accept" THEN [snap.req EXCEPT !.status = "matching"] ELSE snap.req

\* the caller after line 277
RespondUser(snap, action) ==
    LET response_time == IF snap.resp.notified_at # NoTime
                         THEN snap.t - snap.resp.notified_at ELSE 0
    IN IF action = "decline" THEN update_iri(snap.user, FALSE, response_time)
       ELSE snap.user

\* line 245 rejecting only the requests that are finished
RespondRejectsFinished(snap) ==
    snap.req.status \in {"fulfilled", "cancelled", "expired"}

\* line 245: the request no longer accepts responses
RespondRejects(snap) == snap.req.status # "open"

\* db.session.commit() of respond_to_request; a row the handler created gets
\* its notified_at default when it is inserted, after responded_at was set
\* (the clock counts whole minutes, so the two are equal when no Tick falls
\* between the call and its commit)
RespondCommit(snap, u, r, action, k) ==
    /\ requests' = [requests EXCEPT
                      ![r] = Flush(@, snap.req, RespondRequest(snap, action))]
    /\ responses' =
          IF snap.idx = NoId
          THEN Append(responses,
                      [RespondResponse(snap, action, k) EXCEPT !.notified_at = now])
          ELSE [responses EXCEPT
                  ![snap.idx] = Flush(@, snap.resp, RespondResponse(snap, action, k))]
    /\ users' = [users EXCEPT ![u] = Flush(@, snap.user, RespondUser(snap, action))]
    /\ ev' = Event("respond", u, r, action, None, k, NoRating, "ok")
    /\ UNCHANGED logs

respond_to_request(u, r, action, k) ==
    LET snap == RespondRead(u, r)
    IN /\ IF RespondRejects(snap)
          THEN /\ ev' = Rejected("respond", u, r, "conflict")
               /\ UNCHANGED data
          ELSE RespondCommit(snap, u, r, action, k)
       /\ UNCHANGED <<now, ticks, sess>>

(* ----------------------- app.py: complete_request --------------------- *)
\* lines 298-301 filtering on the request alone
CompleteReadAnyResponder(u, r, responder) ==
    LET idx == First(InIdOrder({i \in DOMAIN responses :
                                   responses[i].request_id = r}))
    IN [req |-> requests[r], idx |-> idx,
        resp |-> IF idx = NoId THEN ResponseRow(r, responder, "notified", NoTime)
                 ELSE responses[idx],
        responder |-> users[responder], user |-> users[u], t |-> now]

\* what the handler's session loads: the request, the responder's Response
\* row (if any), the responder and the caller
CompleteRead(u, r, responder) ==
    LET idx == First(ResponseIds(responses, r, responder))
    IN [req |-> requests[r], idx |-> idx,
        resp |-> IF idx = NoId THEN ResponseRow(r, responder, "notified", NoTime)
                 ELSE responses[idx],
        responder |-> users[responder], user |-> users[u], t |-> now]

\* the Response row after lines 304-307
CompleteResponse(snap, units_provided, rating) ==
    [snap.resp EXCEPT !.status = "completed", !.completed_at = snap.t,
                      !.units_provided = units_provided,
                      !.requester_rating = rating]

\* lines 310-316 without the condition of line 315
CompleteResponderStamped(snap) ==
    LET response_time ==
            IF snap.resp.notified_at # NoTime /\ snap.resp.responded_at # NoTime
            THEN snap.resp.responded_at - snap.resp.notified_at ELSE 30
        scored == update_iri(snap.responder, TRUE, response_time)
    IN [scored EXCEPT !.last_donation_date = DateOf(snap.t)]

\* the responder after lines 310-316
CompleteResponder(snap) ==
    LET response_time ==
            IF snap.resp.notified_at # NoTime /\ snap.resp.responded_at # NoTime
            THEN snap.resp.responded_at - snap.resp.notified_at ELSE 30
        scored == update_iri(snap.responder, TRUE, response_time)
    IN IF snap.req.resource_type = "blood" /\ snap.responder.role = "donor"
       THEN [scored EXCEPT !.last_donation_date = DateOf(snap.t)]
       ELSE scored

\* lines 333-339 with > for >= in the threshold check
CompleteRequestStrict(snap, responder, units_provided) ==
    LET units_fulfilled == snap.req.units_fulfilled + units_provided
    IN IF units_fulfilled > snap.req.units_needed
       THEN [snap.req EXCEPT !.units_fulfilled = units_fulfilled,
                             !.status = "fulfilled",
                             !.fulfilled_at = snap.t,
                             !.fulfilled_by_id = responder]
       ELSE [snap.req EXCEPT !.units_fulfilled = units_fulfilled,
                             !.status = "partially_fulfilled"]

\* the request after lines 333-339
CompleteRequest(snap, responder, units_provided) ==
    LET units_fulfilled == snap.req.units_fulfilled + units_provided
    IN IF units_fulfilled >= snap.req.units_needed
       THEN [snap.req EXCEPT !.units_fulfilled = units_fulfilled,
                             !.status = "fulfilled",
                             !.fulfilled_at = snap.t,
                             !.fulfilled_by_id = responder]
       ELSE [snap.req EXCEPT !.units_fulfilled = units_fulfilled,
                             !.status = "partially_fulfilled"]

\* line 303: there is a Response row to complete
CompleteFinds(snap) == snap.idx # NoId

\* db.session.commit() of complete_request; the responder and the caller are
\* one object of the session when they are the same user
CompleteCommit(snap, u, r, responder, units_provided, rating) ==
    LET resp == CompleteResponse(snap, units_provided, rating)
        ecc_earned == calculate_ecc(snap.req, resp)
        scored == CompleteResponder(snap)
        caller0 == IF responder = u THEN scored ELSE snap.user
        caller == [caller0 EXCEPT !.ecc_credits = @ + ecc_earned]
        flushed == [users EXCEPT
                      ![responder] = Flush(@, snap.responder, scored)]
    IN /\ responses' = [responses EXCEPT ![snap.idx] = Flush(@, snap.resp, resp)]
       /\ users' = [flushed EXCEPT ![u] = Flush(@, snap.user, caller)]
       /\ logs' = Append(logs, [user_id |-> u, request_id |-> r,
                                contribution_type |-> "fulfillment",
                                ecc_earned |-> ecc_earned])
       /\ requests' = [requests EXCEPT
                         ![r] = Flush(@, snap.req,
                                      CompleteRequest(snap, responder, units_provided))]
       /\ ev' = Event("complete", responder, r, None, None,
                      units_provided, rating, "ok")

complete_request(u, r, responder, units_provided, rating) ==
    LET snap == CompleteRead(u, r, responder)
    IN /\ IF ~is_organization(users[u]) \/ requests[r].requester_id # u
          THEN /\ ev' = Rejected("complete", responder, r, "forbidden")
               /\ UNCHANGED data
          ELSE IF ~CompleteFinds(snap)
          THEN /\ ev' = Rejected("complete", responder, r, "noop")
               /\ UNCHANGED data
          ELSE CompleteCommit(snap, u, r, responder, units_provided, rating)
       /\ UNCHANGED <<now, ticks, sess>>

(* ------------------------------ the clock ----------------------------- *)
Tick ==
    /\ ticks < MaxTicks
    /\ \E d \in TickDeltas : now' = now + d
    /\ ticks' = ticks + 1
    /\ ev' = NoEvent
    /\ UNCHANGED <<data, calls, sess>>

(* ------------------------- serial specification ----------------------- *)
Init ==
    /\ users = SeedUsers
    /\ requests = <<>>
    /\ responses = <<>>
    /\ logs = <<>>
    /\ now = 0
    /\ ticks = 0
    /\ calls = 0
    /\ sess = [p \in Threads |-> Idle]
    /\ ev = NoEvent

\* a handler call is made while the model's call budget lasts
Call == calls < MaxCalls /\ calls' = calls + 1

NewRequest ==
    /\ Call
    /\ \E u \in UserIds, form \in RequestForms :
        new_request(u, form[1], form[2], form[3], form[4])

Respond ==
    /\ Call
    /\ \E u \in UserIds, r \in DOMAIN requests, action \in Actions,
       k \in UnitsOfferedInputs :
        respond_to_request(u, r, action, k)

Complete ==
    /\ Call
    /\ \E u \in UserIds, r \in DOMAIN requests, responder \in UserIds,
       units_provided \in UnitsProvidedInputs, rating \in RatingInputs :
        complete_request(u, r, responder, units_provided, rating)

Next == NewRequest \/ Respond \/ Complete \/ Tick

Spec == Init /\ [][Next]_vars

(* ----------------------- threaded specification ----------------------- *)
\* Each request thread has its own session: a handler first loads its rows
\* (Begin...), other threads may commit in between, and db.session.commit()
\* then writes the columns the handler changed (Commit...).
IsIdle(p) == sess[p].op = "idle"

Begun == Event("begin", NoId, NoId, None, None, 0, NoRating, None)

BeginRespond(p) ==
    /\ IsIdle(p)
    /\ Call
    /\ \E u \in UserIds, r \in DOMAIN requests, action \in Actions,
          k \in UnitsOfferedInputs :
          LET snap == RespondRead(u, r)
          IN IF RespondRejects(snap)
             THEN /\ ev' = Rejected("respond", u, r, "conflict")
                  /\ UNCHANGED sess
             ELSE /\ sess' = [sess EXCEPT ![p] =
                                [op |-> "respond", snap |-> snap, u |-> u, r |-> r,
                                 action |-> action, k |-> k]]
                  /\ ev' = Begun
    /\ UNCHANGED <<data, now, ticks>>

CommitRespond(p) ==
    /\ sess[p].op = "respond"
    /\ RespondCommit(sess[p].snap, sess[p].u, sess[p].r, sess[p].action, sess[p].k)
    /\ sess' = [sess EXCEPT ![p] = Idle]
    /\ UNCHANGED <<now, ticks, calls>>

BeginComplete(p) ==
    /\ IsIdle(p)
    /\ Call
    /\ \E u \in UserIds, r \in DOMAIN requests, responder \in UserIds,
          units_provided \in UnitsProvidedInputs, rating \in RatingInputs :
          LET snap == CompleteRead(u, r, responder)
          IN IF ~is_organization(users[u]) \/ requests[r].requester_id # u
             THEN /\ ev' = Rejected("complete", responder, r, "forbidden")
                  /\ UNCHANGED sess
             ELSE IF ~CompleteFinds(snap)
             THEN /\ ev' = Rejected("complete", responder, r, "noop")
                  /\ UNCHANGED sess
             ELSE /\ sess' = [sess EXCEPT ![p] =
                                [op |-> "complete", snap |-> snap, u |-> u, r |-> r,
                                 responder |-> responder,
                                 units_provided |-> units_provided,
                                 rating |-> rating]]
                  /\ ev' = Begun
    /\ UNCHANGED <<data, now, ticks>>

CommitComplete(p) ==
    /\ sess[p].op = "complete"
    /\ CompleteCommit(sess[p].snap, sess[p].u, sess[p].r, sess[p].responder,
                      sess[p].units_provided, sess[p].rating)
    /\ sess' = [sess EXCEPT ![p] = Idle]
    /\ UNCHANGED <<now, ticks, calls>>

\* lines 168-205: duplicate check, insert, commit, and the match
BeginNewRequest(p) ==
    /\ IsIdle(p)
    /\ Call
    /\ Len(requests) < MaxRequests
    /\ \E u \in UserIds, form \in RequestForms :
          LET existing == ExistingOpen(requests, u, form[1], form[2])
              row == RequestRow(users, u, form[1], form[2], form[3], form[4], now)
          IN IF ~is_organization(users[u])
             THEN /\ ev' = Rejected("create", u, NoId, "forbidden")
                  /\ UNCHANGED <<requests, sess>>
             ELSE IF existing # NoId
             THEN /\ ev' = Rejected("create", u, existing, "conflict")
                  /\ UNCHANGED <<requests, sess>>
             ELSE /\ requests' = Append(requests, row)
                  /\ sess' = [sess EXCEPT ![p] =
                                [op |-> "notify", r |-> Len(requests) + 1, u |-> u,
                                 form |-> form, row |-> row,
                                 matches |-> find_matching_contributors(users, row, now),
                                 expanded |-> Expands(users, row)]]
                  /\ ev' = Begun
    /\ UNCHANGED <<users, responses, logs, now, ticks>>

\* lines 206, 410-421: the notification rows and the request's
\* auto_expanded flag are committed
CommitNotify(p) ==
    /\ sess[p].op = "notify"
    /\ responses' = responses
                      \o notify_contributors(sess[p].r, sess[p].matches, now)
    /\ requests' = [requests EXCEPT
                      ![sess[p].r] =
                          Flush(@, sess[p].row,
                                [sess[p].row EXCEPT
                                    !.auto_expanded = sess[p].expanded])]
    /\ ev' = Event("create", sess[p].u, sess[p].r, sess[p].form[1],
                   sess[p].form[2], sess[p].form[3], NoRating, "ok")
    /\ sess' = [sess EXCEPT ![p] = Idle]
    /\ UNCHANGED <<users, logs, now, ticks, calls>>

NextConc ==
    \/ \E p \in Threads : BeginNewRequest(p)
    \/ \E p \in Threads : CommitNotify(p)
    \/ \E p \in Threads : BeginRespond(p)
    \/ \E p \in Threads : CommitRespond(p)
    \/ \E p \in Threads : BeginComplete(p)
    \/ \E p \in Threads : CommitComplete(p)
    \/ Tick

SpecConc == Init /\ [][NextConc]_vars

(* ------------------- update_iri on its own (SpecIri) ------------------ *)
\* the reliability index a contributor starts from, in units of 1/IriScale
IriInputs == {0, 1, 89, 90, 1500, 2849, 2940, 2999, 3000}
\* response_time_minutes: zero, small, around the 60-minute cut-off, very
\* large and negative
ResponseTimeInputs == {-100000, -1, 0, 45, 60, 100000}

\* the contributors whose index is scored
IriUsers == {2}

InitIri ==
    /\ \E s \in IriInputs :
          users = [i \in UserIds |->
                      IF i \in IriUsers THEN [SeedUsers[i] EXCEPT !.iri_score = s]
                      ELSE SeedUsers[i]]
    /\ requests = <<>>
    /\ responses = <<>>
    /\ logs = <<>>
    /\ now = 0
    /\ ticks = 0
    /\ calls = 0
    /\ sess = [p \in Threads |-> Idle]
    /\ ev = NoEvent

OnResponse ==
    /\ Call
    /\ \E u \in IriUsers, fulfilled \in BOOLEAN, rt \in ResponseTimeInputs :
          /\ users' = [users EXCEPT ![u] = update_iri(@, fulfilled, rt)]
          /\ ev' = Event("onResponse", u, NoId,
                         IF fulfilled THEN "fulfilled" ELSE "declined",
                         None, rt, NoRating, "ok")
    /\ UNCHANGED <<requests, responses, logs, now, ticks, sess>>

NextIri == OnResponse

SpecIri == InitIri /\ [][NextIri]_vars

(* ----------------- calculate_ecc on its own (SpecEcc) ----------------- *)
EccUrgencies == {"critical", "urgent", "normal"}
\* requester_rating as complete_request stores it (int(request.form...)), and
\* the column's NULL
EccRatings == {NoRating, -20, 0, 1, 2, 3, 4, 5}

InitEcc ==
    /\ users = SeedUsers
    /\ \E urgency \in EccUrgencies, bg \in BloodGroups \cup {None} :
          requests = <<RequestRow(SeedUsers, 1, "blood", bg, 1, urgency, 0)>>
    /\ \E rating \in EccRatings :
          responses = <<[ResponseRow(1, 2, "completed", 0)
                            EXCEPT !.requester_rating = rating]>>
    /\ logs = <<>>
    /\ now = 0
    /\ ticks = 0
    /\ calls = 0
    /\ sess = [p \in Threads |-> Idle]
    /\ ev = NoEvent

\* lines 319-330: the amount is computed and logged
CalculateEcc ==
    /\ logs = <<>>
    /\ LET ecc_earned == calculate_ecc(requests[1], responses[1])
       IN /\ logs' = <<[user_id |-> 1, request_id |-> 1,
                        contribution_type |-> "fulfillment",
                        ecc_earned |-> ecc_earned]>>
          /\ ev' = Event("ecc", NoId, 1, requests[1].urgency,
                         requests[1].blood_group, ecc_earned,
                         responses[1].requester_rating, "ok")
    /\ UNCHANGED <<users, requests, responses, now, ticks, calls, sess>>

NextEcc == CalculateEcc

SpecEcc == InitEcc /\ [][NextEcc]_vars

(* --------- the matcher and the eligibility check (SpecMatch) ---------- *)
\* the time of the first call
MatchNow == 100 * MinutesPerDay

\* a donor whose last donation was on the given day
Donated(u, day) == [u EXCEPT !.last_donation_date = day]

\* registered users of three cities, two of them in one district
MatchUsers ==
    <<NewUser("hospital", "Mumbai", "Mumbai Suburban", None, TRUE, 50, 50),
      NewUser("blood_bank", "Mumbai", "Mumbai Suburban", None, TRUE, 50, 150),
      NewUser("donor", "Mumbai", "Mumbai Suburban", "O-", TRUE, 40, 0),
      Donated(NewUser("donor", "Mumbai", "Mumbai Suburban", "O-", TRUE, 90, 0), 90),
      NewUser("donor", "Mumbai", "Mumbai Suburban", "A-", TRUE, 60, 0),
      NewUser("donor", "Mumbai", "Mumbai Suburban", "A+", TRUE, 60, 0),
      NewUser("donor", "Mumbai", "Mumbai Suburban", "B+", FALSE, 70, 0),
      Donated(NewUser("donor", "Mumbai", "Mumbai Suburban", "AB+", TRUE, 30, 0), 10),
      NewUser("donor", "Mumbai", "Mumbai Suburban", "O+", TRUE, 100, 0),
      NewUser("donor", "Thane", "Mumbai Suburban", "O-", TRUE, 95, 0),
      NewUser("donor", "Thane", "Mumbai Suburban", "O-", TRUE, 80, 0),
      NewUser("donor", "Thane", "Mumbai Suburban", "O-", FALSE, 99, 0),
      Donated(NewUser("donor", "Thane", "Mumbai Suburban", "O-", TRUE, 70, 0), 44),
      Donated(NewUser("donor", "Thane", "Mumbai Suburban", "A-", TRUE, 85, 0), 45),
      NewUser("donor", "Thane", "Mumbai Suburban", "AB-", TRUE, 50, 0),
      NewUser("donor", "Pune", "Pune", "O-", TRUE, 100, 0),
      NewUser("donor", "Mumbai", "Mumbai Suburban", None, TRUE, 75, 0),
      NewUser("ngo", "Thane", "Mumbai Suburban", None, FALSE, 50, 20),
      NewUser("ambulance", "Mumbai", "Mumbai Suburban", None, TRUE, 50, 75),
      NewUser("volunteer", "Mumbai", "Mumbai Suburban", None, FALSE, 75, 0),
      NewUser("ambulance", "Thane", "Mumbai Suburban", None, TRUE, 50, 120),
      NewUser("volunteer", "Thane", "Mumbai Suburban", None, TRUE, 20, 0)>>

\* the organizations that post the request
MatchRequesters == {1, 2, 18}

\* <<resource_type, blood_group, urgency>> of the posted request
MatchForms ==
    ({"blood"} \X {None, "O-", "A-", "A+", "AB+"} \X {"critical", "urgent", "normal"})
      \cup ({"plasma"} \X {"O-", "A+"} \X {"critical", "normal"})
      \cup ({"oxygen", "ambulance", "volunteer"} \X {None} \X {"critical", "normal"})

\* the users that have switched their availability off
MatchUnavailable == {{}, {4, 9}, {10, 11, 12}, {3, 4, 5, 6, 7, 8, 9}}

InitMatch ==
    /\ \E off \in MatchUnavailable :
          users = [i \in DOMAIN MatchUsers |->
                      [MatchUsers[i] EXCEPT !.is_available = i \notin off]]
    /\ \E u \in MatchRequesters, form \in MatchForms :
          requests = <<RequestRow(MatchUsers, u, form[1], form[2], 1, form[3],
                                  MatchNow)>>
    /\ responses = <<>>
    /\ logs = <<>>
    /\ now = MatchNow
    /\ ticks = 0
    /\ calls = 0
    /\ sess = [p \in Threads |-> Idle]
    /\ ev = NoEvent

\* find_matching_contributors(emergency_request): the list it returns, and
\* the request's auto_expanded flag set on expansion (line 388); the event
\* keeps the flag's value at the time of the call
Match ==
    /\ \E r \in DOMAIN requests :
          LET req == requests[r]
          IN /\ ev' = Event("match", req.requester_id, r,
                            [contributors |->
                                 find_matching_contributors(users, req, now),
                             auto_expanded |-> req.auto_expanded],
                            req.blood_group, 0, NoRating, "ok")
             /\ requests' = [requests EXCEPT
                               ![r].auto_expanded =
                                   IF Expands(users, req) THEN TRUE ELSE @]
    /\ UNCHANGED <<users, responses, logs, now, ticks, calls, sess>>

\* is_user_eligible_for_request(user, emergency_request)
IsEligible ==
    /\ \E u \in DOMAIN users, r \in DOMAIN requests :
          ev' = Event("eligible", u, r, None, requests[r].blood_group, 0, NoRating,
                      IF is_user_eligible_for_request(users[u], requests[r], now)
                      THEN "eligible" ELSE "not_eligible")
    /\ UNCHANGED <<data, now, ticks, calls, sess>>

NextMatch == Match \/ IsEligible \/ Tick

SpecMatch == InitMatch /\ [][NextMatch]_vars

(* ------------- app.py: get_matching_requests_for_user ----------------- *)
\* the rows the query of lines 446-461 selects for the user
MatchingRequests(u, reqs) ==
    {r \in DOMAIN reqs :
        /\ reqs[r].status = "open"
        /\ reqs[r].city = u.city
        /\ IF u.role = "donor" /\ u.blood_group # None
           THEN /\ reqs[r].resource_type = "blood"
                /\ reqs[r].blood_group \in can_donate_to(u)
           ELSE IF u.role = "volunteer"
           THEN reqs[r].resource_type = "volunteer"
           ELSE IF u.role = "ambulance"
           THEN reqs[r].resource_type = "ambulance"
           ELSE TRUE}

\* ORDER BY urgency DESC compares the strings: urgent > normal > critical
UrgencyCollation(urgency) ==
    CASE urgency = "urgent" -> 3
      [] urgency = "normal" -> 2
      [] urgency = "critical" -> 1
      [] OTHER -> 0

\* ORDER BY urgency DESC, created_at DESC; a later row has the higher id
RECURSIVE OrderedRequests(_, _)
OrderedRequests(S, reqs) ==
    IF S = {} THEN <<>>
    ELSE LET m == CHOOSE x \in S : \A y \in S :
                    \/ UrgencyCollation(reqs[x].urgency)
                          > UrgencyCollation(reqs[y].urgency)
                    \/ /\ UrgencyCollation(reqs[x].urgency)
                             = UrgencyCollation(reqs[y].urgency)
                       /\ x >= y
         IN <<m>> \o OrderedRequests(S \ {m}, reqs)

get_matching_requests_for_user(u, reqs) ==
    LET ordered == OrderedRequests(MatchingRequests(u, reqs), reqs)
    IN SubSeq(ordered, 1, Min(Len(ordered), 10))

(* --------------- the contributor's request list (SpecFeed) ------------ *)
\* <<requester, resource_type, blood_group, urgency>> of the stored requests
FeedForms ==
    <<<<1, "blood", "O-", "critical">>, <<1, "blood", "AB+", "normal">>,
      <<1, "blood", None, "urgent">>, <<1, "plasma", "A+", "normal">>,
      <<1, "oxygen", None, "critical">>, <<2, "blood", "A-", "urgent">>,
      <<2, "oxygen", None, "normal">>, <<2, "volunteer", None, "normal">>,
      <<19, "volunteer", None, "critical">>, <<2, "ambulance", None, "critical">>,
      <<1, "volunteer", None, "urgent">>, <<1, "ambulance", None, "normal">>,
      <<18, "blood", "O-", "normal">>, <<18, "volunteer", None, "urgent">>>>

\* the requests that may have left status open
FeedClosable == {1, 4, 8, 10, 13}

InitFeed ==
    /\ users = MatchUsers
    /\ \E closed \in SUBSET FeedClosable :
          requests =
             [r \in DOMAIN FeedForms |->
                 [RequestRow(MatchUsers, FeedForms[r][1], FeedForms[r][2],
                             FeedForms[r][3], 1, FeedForms[r][4], MatchNow)
                    EXCEPT !.status = IF r \in closed THEN "matching" ELSE "open"]]
    /\ responses = <<>>
    /\ logs = <<>>
    /\ now = MatchNow
    /\ ticks = 0
    /\ calls = 0
    /\ sess = [p \in Threads |-> Idle]
    /\ ev = NoEvent

\* the dashboard's call of get_matching_requests_for_user(current_user)
GetMatchingRequests ==
    /\ \E u \in DOMAIN users :
          ev' = Event("feed", u, NoId,
                      get_matching_requests_for_user(users[u], requests),
                      users[u].blood_group, 0, NoRating, "ok")
    /\ UNCHANGED <<data, now, ticks, calls, sess>>

NextFeed == GetMatchingRequests

SpecFeed == InitFeed /\ [][NextFeed]_vars

(* -------------- the compatibility table (SpecTable) ------------------- *)
\* a donor of each blood group (or of none) and a request for each group
InitTable ==
    /\ \E g \in BloodGroups \cup {None} :
          users = [i \in UserIds |->
                      IF i = 2 THEN [SeedUsers[i] EXCEPT !.blood_group = g]
                      ELSE SeedUsers[i]]
    /\ \E h \in BloodGroups :
          requests = <<RequestRow(SeedUsers, 1, "blood", h, 1, "normal", 0)>>
    /\ responses = <<>>
    /\ logs = <<>>
    /\ now = 0
    /\ ticks = 0
    /\ calls = 0
    /\ sess = [p \in Threads |-> Idle]
    /\ ev = NoEvent

\* lines 438-439: is the requested group in the donor's list
Lookup ==
    /\ ev.op = "none"
    /\ ev' = Event("lookup", 2, 1, requests[1].blood_group, users[2].blood_group,
                   0, NoRating,
                   IF requests[1].blood_group \in can_donate_to(users[2])
                   THEN "compatible" ELSE "incompatible")
    /\ UNCHANGED <<data, now, ticks, calls, sess>>

NextTable == Lookup

SpecTable == InitTable /\ [][NextTable]_vars

(* ------- responses of contributors of every index (SpecRespond) ------- *)
\* requests are posted and answered; the contributors of IriUsers start from
\* every index of IriInputs
NextRespond == NewRequest \/ Respond

SpecRespond == InitIri /\ [][NextRespond]_vars

(* ============================== claims =============================== *)
RECURSIVE SumUnits(_, _)
SumUnits(resps, ids) ==
    IF ids = {} THEN 0
    ELSE LET i == CHOOSE x \in ids : TRUE
         IN resps[i].units_provided + SumUnits(resps, ids \ {i})

CompletedRows(r) ==
    {i \in DOMAIN responses :
        responses[i].request_id = r /\ responses[i].status = "completed"}

LogsOf(r) == {i \in DOMAIN logs : logs[i].request_id = r}

RowsOf(r, u) ==
    {i \in DOMAIN responses :
        responses[i].request_id = r /\ responses[i].responder_id = u}

\* C1: in every reachable state every request (with units_needed >= 1) has
\* units_fulfilled <= units_needed, whatever completions were applied.
C1_UnitsFulfilledWithinNeeded ==
    \A r \in DOMAIN requests :
        requests[r].units_needed >= 1 =>
            requests[r].units_fulfilled <= requests[r].units_needed

\* C2: once a request is fulfilled or cancelled, no step changes its status.
C2_StatusMonotonic ==
    [][\A r \in DOMAIN requests :
          requests[r].status \in {"fulfilled", "cancelled"} =>
              requests'[r].status = requests[r].status]_vars

\* C3: at most one Response row per (request, contributor) pair, under any
\* interleaving of the handlers.
C3_AtMostOneResponse ==
    \A i, j \in DOMAIN responses :
        (/\ responses[i].request_id = responses[j].request_id
         /\ responses[i].responder_id = responses[j].responder_id) => i = j

\* C4: completions for different responders of one request are applied
\* atomically: once none is in flight, and each completed Response was
\* completed once, units_fulfilled is the sum of the units provided and the
\* request is fulfilled iff that sum reaches units_needed (stated for valid
\* unit counts, >= 1).
C4_CompletionsSerializable ==
    \A r \in DOMAIN requests :
        (/\ \A p \in Threads : sess[p].op = "complete" => sess[p].r # r
         /\ LogsOf(r) # {}
         /\ requests[r].units_needed >= 1
         /\ \A i \in CompletedRows(r) : responses[i].units_provided >= 1
         /\ Cardinality(LogsOf(r)) = Cardinality(CompletedRows(r)))
        => LET total == SumUnits(responses, CompletedRows(r))
           IN /\ requests[r].units_fulfilled = total
              /\ requests[r].status \in {"fulfilled", "partially_fulfilled"} =>
                    ((requests[r].status = "fulfilled")
                        <=> (total >= requests[r].units_needed))

\* C5: a respond call on a request whose status is not open is rejected and
\* leaves requests, responses, users and logs as they were.
C5_RespondOnClosedRejected ==
    [][(/\ ev'.op = "respond"
        /\ requests[ev'.req].status # "open")
       => (ev'.res = "conflict" /\ UNCHANGED data)]_vars

C5_Witness ==
    /\ ev.op = "respond"
    /\ ev.res = "conflict"
    /\ requests[ev.req].status \in {"matching", "fulfilled"}

\* C6: no two open requests share (requester, resource type, blood group).
C6_NoDuplicateOpenRequest ==
    \A i, j \in DOMAIN requests :
        (/\ requests[i].status = "open" /\ requests[j].status = "open"
         /\ requests[i].requester_id = requests[j].requester_id
         /\ requests[i].resource_type = requests[j].resource_type
         /\ requests[i].blood_group = requests[j].blood_group) => i = j

\* C7: the reliability index stays within [0,100] under any sequence of
\* onResponse calls, for every response time.
C7_IriWithinRange ==
    \A u \in UserIds :
        users[u].iri_score >= 0 /\ users[u].iri_score <= 100 * IriScale

C7_Witness ==
    /\ ev.op = "onResponse"
    /\ ev.units < 0
    /\ ev.arg = "fulfilled"
    /\ users[ev.who].iri_score = 100 * IriScale
    /\ users[ev.who].total_requests_declined >= 1

\* C8: a complete that finds the responder's Response adds exactly
\* units_provided to units_fulfilled and sets the status to fulfilled (with
\* fulfilled_at and the responder recorded) if units_fulfilled >= units_needed,
\* otherwise to partially_fulfilled.
C8_CompleteAddsUnits ==
    [][(/\ ev'.op = "complete"
        /\ ev'.res # "forbidden"
        /\ RowsOf(ev'.req, ev'.who) # {})
       => LET old == requests[ev'.req]
              new == requests'[ev'.req]
          IN /\ ev'.res = "ok"
             /\ new.units_fulfilled = old.units_fulfilled + ev'.units
             /\ IF new.units_fulfilled >= new.units_needed
                THEN /\ new.status = "fulfilled"
                     /\ new.fulfilled_at = now
                     /\ new.fulfilled_by_id = ev'.who
                ELSE /\ new.status = "partially_fulfilled"
                     /\ new.fulfilled_at = old.fulfilled_at
                     /\ new.fulfilled_by_id = old.fulfilled_by_id]_vars

\* units_needed = 2, two completions of 1 unit: fulfilled with 2 units
C8_Witness ==
    /\ ev.op = "complete"
    /\ ev.res = "ok"
    /\ ev.units = 1
    /\ requests[ev.req].units_needed = 2
    /\ requests[ev.req].units_fulfilled = 2
    /\ requests[ev.req].status = "fulfilled"
    /\ requests[ev.req].fulfilled_at # NoTime
    /\ Cardinality(LogsOf(ev.req)) = 2

\* C9: a complete for a (request, contributor) pair with no Response row
\* leaves requests, responses, users and logs as they were.
C9_CompleteWithoutResponseNoop ==
    [][(/\ ev'.op = "complete"
        /\ RowsOf(ev'.req, ev'.who) = {})
       => UNCHANGED data]_vars

C9_Witness ==
    /\ ev.op = "complete"
    /\ ev.res = "noop"
    /\ RowsOf(ev.req, ev.who) = {}
    /\ \E i \in DOMAIN responses : responses[i].request_id = ev.req

\* C10: a createRequest with a missing blood group for blood or plasma or
\* with units_needed <= 0, and a complete with units_provided <= 0 or a
\* rating outside 1..5, leave requests, responses, users and logs unchanged.
C10_InvalidInputRejected ==
    [][(\/ /\ ev'.op = "create"
           /\ \/ ev'.units <= 0
              \/ ev'.arg \in {"blood", "plasma"} /\ ev'.bg = None
        \/ /\ ev'.op = "complete"
           /\ \/ ev'.units <= 0
              \/ ev'.rating \notin 1..5)
       => UNCHANGED data]_vars

\* C11: repeating the identical successful complete or respond call leaves
\* requests, responses, users and logs equal to what they were after the
\* first call.
C11_RepeatedCallSafe ==
    [][(/\ ev.op \in {"complete", "respond"}
        /\ ev.res = "ok"
        /\ ev' = ev)
       => UNCHANGED data]_vars

\* C12: no step lowers an organization's credit balance.
C12_CreditsNeverDecrease ==
    [][\A u \in DOMAIN users :
          is_organization(users[u]) =>
              users'[u].ecc_credits >= users[u].ecc_credits]_vars

\* C13: creditsEarned = 10 * multiplier(urgency) + (5 if the request's blood
\* group is rare, else 0) + (rating - 3, the rating being 3 when it is unset),
\* with multiplier 3, 2, 1 for critical, urgent, normal; and for a fixed
\* rating and blood group the amount for critical >= urgent >= normal.
C13_CreditsEarnedFormula ==
    ev.op = "ecc" =>
        LET rating == IF ev.rating = NoRating THEN 3 ELSE ev.rating
            rare == IF ev.bg \in {"AB-", "B-", "A-", "O-"} THEN 5 ELSE 0
            multiplier == CASE ev.arg = "critical" -> 3
                            [] ev.arg = "urgent" -> 2
                            [] ev.arg = "normal" -> 1
            earned(urgency) ==
                calculate_ecc([requests[1] EXCEPT !.urgency = urgency],
                              responses[1])
        IN /\ ev.units = 10 * multiplier + rare + (rating - 3)
           /\ earned("critical") >= earned("urgent")
           /\ earned("urgent") >= earned("normal")

(* ------------------------ claims on the matcher ----------------------- *)
Range(list) == {list[i] : i \in DOMAIN list}

\* the set of users the query selects in the request's city, and in the
\* other cities of the request's district
CityPool(req) == Range(CityContributors(users, req))
DistrictPool(req) == Range(DistrictContributors(users, req))

\* the notification limit the specification states
LimitOf(req) == IF req.urgency = "critical" THEN 10 ELSE 5

\* a donor whose last donation was fewer than 56 days ago
InCooldown(u) ==
    /\ u.role = "donor"
    /\ u.last_donation_date # NoTime
    /\ DateOf(now) - u.last_donation_date < 56

\* the ranking tuple the specification states: eligibility flag, verified
\* flag, reliability score (in units of 1/IriScale)
RankOf(u) ==
    <<IF InCooldown(u) THEN 0 ELSE 1,
      IF u.is_verified THEN 1 ELSE 0,
      IF u.role \in {"donor", "volunteer"} THEN u.iri_score
      ELSE IriScale * (IF u.ecc_credits < 100 THEN u.ecc_credits ELSE 100)>>

C15_MatchSortedAndLimited ==
    ev.op = "match" =>
        LET list == ev.arg.contributors
            req == requests[ev.req]
            pool == Range(Candidates(users, req))
        IN /\ Len(list) <= LimitOf(req)
           /\ Range(list) \subseteq pool
           /\ \A i, j \in DOMAIN list :
                 i < j => ~KeyLess(RankOf(users[list[i]]), RankOf(users[list[j]]))
           /\ \A c \in pool \ Range(list) : \A x \in Range(list) :
                 ~KeyLess(RankOf(users[x]), RankOf(users[c]))

\* a critical request with more than 10 candidates: 10 are returned, an
\* unverified contributor among them after a verified one of lower index
C15_Witness ==
    /\ ev.op = "match"
    /\ requests[ev.req].urgency = "critical"
    /\ Len(ev.arg.contributors) = 10
    /\ Cardinality(Range(Candidates(users, requests[ev.req]))) > 10
    /\ \E i, j \in DOMAIN ev.arg.contributors :
          /\ i < j
          /\ users[ev.arg.contributors[i]].is_verified
          /\ ~users[ev.arg.contributors[j]].is_verified
          /\ users[ev.arg.contributors[i]].iri_score
                < users[ev.arg.contributors[j]].iri_score

\* C16: a match call takes district candidates into the list and marks the
\* request auto_expanded exactly when (fewer than 3 city candidates or
\* critical) and (rare blood group or critical); otherwise the list is
\* city-only and the flag keeps its value.
C16_ExpansionCondition ==
    [][ev'.op = "match" =>
          LET req == requests[ev'.req]
              list == ev'.arg.contributors
              expands ==
                  /\ Cardinality(CityPool(req)) < 3 \/ req.urgency = "critical"
                  /\ req.blood_group \in {"AB-", "B-", "A-", "O-"}
                        \/ req.urgency = "critical"
          IN IF expands
             THEN /\ requests'[ev'.req].auto_expanded
                  /\ Range(list) \subseteq CityPool(req) \cup DistrictPool(req)
                  /\ \/ Len(list) = LimitOf(req)
                     \/ Range(list) = CityPool(req) \cup DistrictPool(req)
             ELSE /\ requests'[ev'.req].auto_expanded = req.auto_expanded
                  /\ Range(list) \subseteq CityPool(req)]_vars

\* an urgent request for a rare group with fewer than 3 city candidates:
\* expanded, district contributors in the list
C16_Witness ==
    /\ ev.op = "match"
    /\ requests[ev.req].urgency = "urgent"
    /\ requests[ev.req].auto_expanded
    /\ Cardinality(CityPool(requests[ev.req])) \in {1, 2}
    /\ Range(ev.arg.contributors) \cap DistrictPool(requests[ev.req]) # {}
    /\ Range(ev.arg.contributors) \cap CityPool(requests[ev.req]) # {}

\* the users with the district candidates of the request taken out
WithoutDistrict(req) ==
    [i \in DOMAIN users |->
        IF i \in DistrictPool(req) THEN [users[i] EXCEPT !.is_available = FALSE]
        ELSE users[i]]

\* what match returns for the request when no district candidates exist
CityOnlyResult(req) ==
    Range(find_matching_contributors(WithoutDistrict(req), req, now))

\* C17: every city-local contributor match returns when no district
\* candidates exist is in the list match returns with the district candidates.
C17_ExpansionKeepsCityLocal ==
    ev.op = "match" =>
        CityOnlyResult(requests[ev.req]) \subseteq Range(ev.arg.contributors)

\* C17 (amended): every city-local contributor match returns when no district
\* candidates exist is in the list match returns with the district
\* candidates, unless that list is full (N entries) and every entry ranks at
\* least as high as the contributor.
C17_CityLocalKeptOrOutranked ==
    ev.op = "match" =>
        LET list == ev.arg.contributors
            req == requests[ev.req]
        IN \A c \in CityOnlyResult(req) :
              \/ c \in Range(list)
              \/ /\ Len(list) = LimitOf(req)
                 /\ \A x \in Range(list) :
                       ~KeyLess(RankOf(users[x]), RankOf(users[c]))

\* district candidates were added; one city-local contributor is kept and
\* another one is displaced
C17_Witness ==
    /\ ev.op = "match"
    /\ Range(ev.arg.contributors) \cap DistrictPool(requests[ev.req]) # {}
    /\ CityOnlyResult(requests[ev.req]) \cap Range(ev.arg.contributors) # {}
    /\ CityOnlyResult(requests[ev.req]) \ Range(ev.arg.contributors) # {}

\* C18: every contributor match returns is not the requester, is available,
\* has a role allowed for the resource type, and for a blood request has a
\* blood group whose compatibility set contains the requested group; an
\* empty pool yields an empty list.
C18_MatchReturnsOnlyAllowed ==
    ev.op = "match" =>
        LET list == ev.arg.contributors
            req == requests[ev.req]
        IN /\ \A c \in Range(list) :
                 /\ c # req.requester_id
                 /\ users[c].is_available
                 /\ CASE req.resource_type = "blood" -> users[c].role = "donor"
                      [] req.resource_type = "ambulance" ->
                             users[c].role = "ambulance"
                      [] req.resource_type = "volunteer" ->
                             users[c].role = "volunteer"
                      [] req.resource_type \in {"plasma", "oxygen"} ->
                             users[c].role \in {"blood_bank", "hospital", "ngo"}
                 /\ req.resource_type = "blood" =>
                       /\ users[c].blood_group \in BloodGroups
                       /\ req.blood_group
                             \in BLOOD_COMPATIBILITY[users[c].blood_group]
           /\ CityPool(req) \cup DistrictPool(req) = {} => list = <<>>

\* C19: a donor whose last donation was fewer than 56 days ago is not
\* eligible for a blood request, and where match returns such a donor it
\* comes after every returned donor that satisfies the cooldown.
C19_CooldownDonorLast ==
    /\ (/\ ev.op = "eligible"
        /\ requests[ev.req].resource_type = "blood"
        /\ InCooldown(users[ev.who]))
       => ev.res = "not_eligible"
    /\ ev.op = "match" =>
          LET list == ev.arg.contributors
          IN \A i, j \in DOMAIN list :
                (/\ InCooldown(users[list[i]])
                 /\ users[list[j]].role = "donor"
                 /\ ~InCooldown(users[list[j]])) => j < i

\* a verified donor in cooldown is returned after a donor off cooldown whose
\* reliability index is lower
C19_Witness ==
    /\ ev.op = "match"
    /\ \E i, j \in DOMAIN ev.arg.contributors :
          /\ j < i
          /\ InCooldown(users[ev.arg.contributors[i]])
          /\ users[ev.arg.contributors[i]].is_verified
          /\ ~InCooldown(users[ev.arg.contributors[j]])
          /\ users[ev.arg.contributors[j]].role = "donor"
          /\ users[ev.arg.contributors[j]].iri_score
                < users[ev.arg.contributors[i]].iri_score

\* C20: isEligible is true iff the contributor is available and, for a blood
\* request, is a donor, is off the 56-day cooldown and has a blood group
\* whose compatibility set contains the requested group; for every other
\* resource type it is true for every available contributor.
C20_IsEligibleIff ==
    ev.op = "eligible" =>
        LET u == users[ev.who]
            req == requests[ev.req]
        IN (ev.res = "eligible")
              <=> /\ u.is_available
                  /\ req.resource_type = "blood" =>
                        /\ u.role = "donor"
                        /\ ~InCooldown(u)
                        /\ u.blood_group \in BloodGroups
                        /\ req.blood_group \in BLOOD_COMPATIBILITY[u.blood_group]

(* ------------------ claims on the request list ------------------------ *)
\* C21: getEligibleRequestsFor returns only requests that are open, are in
\* the contributor's city and pass the role and blood-group filters: a donor
\* sees only blood requests whose group is in the donor's compatibility set
\* (none without a blood group of their own), a volunteer only volunteer
\* requests, an ambulance only ambulance requests, a blood_bank, hospital or
\* ngo only plasma or oxygen requests.
C21_EligibleRequestsFiltered ==
    ev.op = "feed" =>
        LET u == users[ev.who]
        IN \A i \in DOMAIN ev.arg :
              LET req == requests[ev.arg[i]]
              IN /\ req.status = "open"
                 /\ req.city = u.city
                 /\ CASE u.role = "donor" ->
                            /\ req.resource_type = "blood"
                            /\ u.blood_group \in BloodGroups
                            /\ req.blood_group
                                  \in BLOOD_COMPATIBILITY[u.blood_group]
                      [] u.role = "volunteer" -> req.resource_type = "volunteer"
                      [] u.role = "ambulance" -> req.resource_type = "ambulance"
                      [] u.role \in {"blood_bank", "hospital", "ngo"} ->
                            req.resource_type \in {"plasma", "oxygen"}

\* C22: every blood group is in its own compatibility set, the set of O-
\* holds all eight groups, and AB+ is in the set of every group.
C22_CompatibilityTable ==
    (ev.op = "lookup" /\ ev.bg \in BloodGroups) =>
        /\ ev.arg = ev.bg => ev.res = "compatible"
        /\ ev.bg = "O-" => ev.res = "compatible"
        /\ ev.arg = "AB+" => ev.res = "compatible"

\* O- looked up for a request of another group
C22_Witness ==
    /\ ev.op = "lookup"
    /\ ev.bg = "O-"
    /\ ev.arg = "AB-"
    /\ ev.res = "compatible"

(* ---------------------- claims on the handlers ------------------------ *)
\* C23: a decline on an open request is carried out: the contributor's
\* Response is declined, total_requests_received and total_requests_declined
\* grow by one each, the reliability index drops by 3 but not below 0, and
\* the request's status and units_fulfilled and the requester's credits stay
\* as they were.
C23_DeclineEffects ==
    [][(/\ ev'.op = "respond"
        /\ requests[ev'.req].status = "open")
       => /\ ev'.res = "ok"
          /\ ev'.arg = "decline" =>
                LET u == ev'.who
                    r == ev'.req
                    requester == requests[r].requester_id
                IN /\ \E i \in DOMAIN responses' :
                         /\ responses'[i].request_id = r
                         /\ responses'[i].responder_id = u
                         /\ responses'[i].status = "declined"
                   /\ users'[u].total_requests_received
                         = users[u].total_requests_received + 1
                   /\ users'[u].total_requests_declined
                         = users[u].total_requests_declined + 1
                   /\ users'[u].iri_score
                         = (IF users[u].iri_score >= 3 * IriScale
                            THEN users[u].iri_score - 3 * IriScale ELSE 0)
                   /\ requests'[r].status = requests[r].status
                   /\ requests'[r].units_fulfilled = requests[r].units_fulfilled
                   /\ users'[requester].ecc_credits
                         = users[requester].ecc_credits]_vars

\* a second decline of a contributor whose index is already at the floor
C23_Witness ==
    /\ ev.op = "respond"
    /\ ev.arg = "decline"
    /\ ev.res = "ok"
    /\ users[ev.who].iri_score = 0
    /\ users[ev.who].total_requests_declined = 2
    /\ users[ev.who].total_requests_received = 2
    /\ requests[ev.req].status = "open"

\* C24: an accept on an open request creates the contributor's Response if
\* there is none, otherwise updates it in place, with status accepted and the
\* units offered; the request goes from open to matching; units_fulfilled,
\* every reliability index and counter and every credit balance stay as they
\* were.
C24_AcceptEffects ==
    [][(/\ ev'.op = "respond"
        /\ requests[ev'.req].status = "open"
        /\ ev'.arg = "accept")
       => LET u == ev'.who
              r == ev'.req
              had == RowsOf(r, u)
              accepted(row) ==
                  /\ row.request_id = r
                  /\ row.responder_id = u
                  /\ row.status = "accepted"
                  /\ row.units_offered = ev'.units
          IN /\ IF had = {}
                THEN /\ Len(responses') = Len(responses) + 1
                     /\ accepted(responses'[Len(responses')])
                     /\ \A j \in DOMAIN responses : responses'[j] = responses[j]
                ELSE /\ Len(responses') = Len(responses)
                     /\ \E i \in had :
                           /\ accepted(responses'[i])
                           /\ \A j \in DOMAIN responses \ {i} :
                                 responses'[j] = responses[j]
             /\ requests'[r].status = "matching"
             /\ requests'[r].units_fulfilled = requests[r].units_fulfilled
             /\ \A v \in DOMAIN users :
                   /\ users'[v].iri_score = users[v].iri_score
                   /\ users'[v].total_requests_received
                         = users[v].total_requests_received
                   /\ users'[v].total_requests_fulfilled
                         = users[v].total_requests_fulfilled
                   /\ users'[v].total_requests_declined
                         = users[v].total_requests_declined
                   /\ users'[v].ecc_credits = users[v].ecc_credits]_vars

\* an accept by a contributor nobody had notified: the Response is created
C24_Witness ==
    /\ ev.op = "respond"
    /\ ev.arg = "accept"
    /\ ev.res = "ok"
    /\ requests[ev.req].status = "matching"
    /\ requests[ev.req].resource_type = "oxygen"
    /\ \E i \in DOMAIN responses :
          /\ responses[i].request_id = ev.req
          /\ responses[i].responder_id = ev.who
          /\ responses[i].status = "accepted"
          /\ responses[i].units_offered = 2
    /\ Cardinality(RowsOf(ev.req, ev.who)) = 1

RECURSIVE SumEcc(_)
SumEcc(ids) ==
    IF ids = {} THEN 0
    ELSE LET i == CHOOSE x \in ids : TRUE
         IN logs[i].ecc_earned + SumEcc(ids \ {i})

\* C26: the ContributionLog accounts for the credit balances: every
\* organization's ecc_credits equals its initial balance plus the sum of the
\* amounts of its log entries, in every reachable state.
C26_BalanceMatchesLog ==
    \A u \in DOMAIN users :
        is_organization(users[u]) =>
            users[u].ecc_credits
               = SeedUsers[u].ecc_credits
                    + SumEcc({i \in DOMAIN logs : logs[i].user_id = u})

\* C27: for every contributor total_requests_received =
\* total_requests_fulfilled + total_requests_declined in every reachable
\* state.
C27_ReceivedIsFulfilledPlusDeclined ==
    \A u \in DOMAIN users :
        users[u].total_requests_received
           = users[u].total_requests_fulfilled + users[u].total_requests_declined

\* C28: at most one Response of any request has status accepted, in every
\* reachable state.
C28_AtMostOneAccept ==
    \A r \in DOMAIN requests :
        Cardinality({i \in DOMAIN responses :
                        /\ responses[i].request_id = r
                        /\ responses[i].status = "accepted"}) <= 1

====
